---- MODULE Spec2Model ----
(***************************************************************************)
(* pi-llm-usage: the /usage overlay.                                       *)
(*                                                                         *)
(*   providers (src/unnamed/part_000): credential stores, token payload    *)
(*     decoding, the two provider clients fetchAnthropicUsage and          *)
(*     fetchCodexUsage as asynchronous processes with one suspension       *)
(*     point per await;                                                    *)
(*   controller (src/src/index.ts 11-57): the Promise.all join, the        *)
(*     RenderState and the key handler that aborts the shared signal;      *)
(*   renderer (src/src/index.ts 59-225): renderPanel, renderUsageRow,      *)
(*     fitTextEnd as operators over character sequences.                   *)
(*                                                                         *)
(* A JavaScript string is a sequence of one-character cells; the glyphs    *)
(* the renderer draws are written with ASCII stand-ins of the same visible *)
(* width ("|" for the box sides, "-" for the horizontal rule, "#" for the  *)
(* filled gauge cell, "!" for the warning sign).  An escape sequence is a  *)
(* single cell of visible width zero.                                      *)
(***************************************************************************)
EXTENDS Integers, Sequences, FiniteSets, TLC

VARIABLES
    piFile,      \* contents of ~/.pi/agent/auth.json
    codexFile,   \* contents of ~/.codex/auth.json
    panel,       \* "idle" | "open" | "closed": the overlay's lifecycle
    state,       \* RenderState of the invocation: "loading" | "done" | "error"
    results,     \* the results array the renderer reads
    aborted,     \* controller.signal.aborted
    pc,          \* per provider call: the await it is suspended at
    frame,       \* per provider call: its locals (accessToken, account, accountId, status)
    result,      \* per provider call: the ProviderUsage it resolved with
    requests,    \* network requests issued so far
    settleOrder, \* provider calls in the order they settled
    abortedAt,   \* per provider call: where it was suspended when abort() ran
    rWidth,      \* renderer input: target width
    rState,      \* renderer input: RenderState
    rResults,    \* renderer input: results array
    rLines,      \* renderer output
    fText,       \* fitTextEnd input: text
    fMax,        \* fitTextEnd input: maxLength
    fOut,        \* fitTextEnd output
    gWin,        \* renderUsageRow input: the window
    gOut         \* renderUsageRow output

vars == <<piFile, codexFile, panel, state, results, aborted, pc, frame,
          result, requests, settleOrder, abortedAt,
          rWidth, rState, rResults, rLines, fText, fMax, fOut, gWin, gOut>>

ctlVars == <<piFile, codexFile, panel, state, results, aborted, pc, frame,
             result, requests, settleOrder, abortedAt>>
renderVars == <<rWidth, rState, rResults, rLines>>
fitVars == <<fText, fMax, fOut>>
gaugeVars == <<gWin, gOut>>

-----------------------------------------------------------------------------
(* Strings *)

Undefined == <<"undefined">>   \* the JavaScript value undefined, where a string may stand

Repeat(c, n) == IF n <= 0 THEN <<>> ELSE [i \in 1..n |-> c]

Digit(d) == <<"0", "1", "2", "3", "4", "5", "6", "7", "8", "9">>[d + 1]

RECURSIVE NatStr(_)
NatStr(n) == IF n < 10 THEN <<Digit(n)>> ELSE NatStr(n \div 10) \o <<Digit(n % 10)>>

NumStr(n) == IF n < 0 THEN <<"-">> \o NatStr(0 - n) ELSE NatStr(n)

Slice(text, from, to) == SubSeq(text, from + 1, IF to < Len(text) THEN to ELSE Len(text))

Max(a, b) == IF a >= b THEN a ELSE b
Min(a, b) == IF a <= b THEN a ELSE b

NoCredentialsMsg == <<"N", "o", " ", "O", "A", "u", "t", "h", " ", "c", "r", "e", "d", "e", "n", "t", "i", "a", "l", "s", " ", "f", "o", "u", "n", "d">>
CancelledMsg == <<"C", "a", "n", "c", "e", "l", "l", "e", "d">>
HttpPrefix == <<"H", "T", "T", "P", " ">>
ColonSpace == <<":", " ">>
AnthropicName == <<"A", "n", "t", "h", "r", "o", "p", "i", "c">>
CodexName == <<"O", "p", "e", "n", "A", "I", " ", "C", "o", "d", "e", "x">>
Label5h == <<"5", "h", " ", "s", "e", "s", "s", "i", "o", "n">>
LabelWeekly == <<"W", "e", "e", "k", "l", "y">>
LabelOpus == <<"W", "e", "e", "k", "l", "y", " ", "(", "O", "p", "u", "s", ")">>
LabelSonnet == <<"W", "e", "e", "k", "l", "y", " ", "(", "S", "o", "n", "n", "e", "t", ")">>
LabelCodeReview == <<"C", "o", "d", "e", " ", "R", "e", "v", "i", "e", "w">>
DashboardLabel == <<"d", "a", "s", "h", "b", "o", "a", "r", "d">>
StatusLabel == <<"s", "t", "a", "t", "u", "s">>

ANTHROPIC_LINKS == <<[label |-> DashboardLabel, url |-> "https://console.anthropic.com/settings/usage"],
                     [label |-> StatusLabel, url |-> "https://status.anthropic.com"]>>
CODEX_LINKS == <<[label |-> DashboardLabel, url |-> "https://chatgpt.com/codex/settings/usage"],
                 [label |-> StatusLabel, url |-> "https://status.openai.com"]>>

-----------------------------------------------------------------------------
(* Credential stores and tokens *)

\* A value of an `access` / `access_token` field.  A string token carries its
\* text, the number of dot-separated segments, and what its middle segment
\* decodes to: no JSON at all, or an object with the three probed emails.
UndefToken == [kind |-> "undefined"]
NoPayload == [json |-> FALSE]
Payload(profile, email, auth) == [json |-> TRUE, profile |-> profile, email |-> email, auth |-> auth]
StrToken(text, segs, payload) == [kind |-> "string", text |-> text, segs |-> segs, payload |-> payload]
EmptyToken == StrToken(<<>>, 1, NoPayload)
OpaqueToken(text) == StrToken(text, 1, NoPayload)
GarbledJwt(text) == StrToken(text, 3, NoPayload)
JwtToken(text, payload) == StrToken(text, 3, payload)

Truthy(tok) == tok.kind = "string" /\ tok.text # <<>>

\* Completion of a synchronous call: a returned value or a thrown exception.
Return(v) == [threw |-> FALSE, value |-> v]
Throw(name, message) == [threw |-> TRUE, name |-> name, message |-> message]

\* File contents.
MissingFile == [kind |-> "missing"]
MalformedFile == [kind |-> "malformed"]
JsonNullFile == [kind |-> "null"]
PiObject(anthropic, codex) == [kind |-> "object", anthropic |-> anthropic, codex |-> codex]
CodexObject(tokens) == [kind |-> "object", tokens |-> tokens]

\* A provider entry of the primary store.
AbsentEntry == [kind |-> "absent"]
PiAuth(access, accountId) == [kind |-> "object", access |-> access, accountId |-> accountId]
NullAuth == [kind |-> "null"]

\* The secondary store's `tokens` member.
NoTokens == [kind |-> "absent"]
Tokens(accessToken) == [kind |-> "object", access_token |-> accessToken]

\* JSON.parse(fs.readFileSync(path)): throws on a missing file and on text
\* that is not JSON.
ReadJson(file) ==
    IF file.kind = "missing" THEN Throw("Error", <<"E", "N", "O", "E", "N", "T">>)
    ELSE IF file.kind = "malformed" THEN Throw("SyntaxError", <<"J", "S", "O", "N">>)
    ELSE Return(file)

\* The try block of readPiAuth: data[provider] ?? null.
readPiAuthTry(file, provider) ==
    LET data == ReadJson(file) IN
    IF data.threw THEN data
    ELSE IF data.value.kind = "null" THEN Throw("TypeError", <<"n", "u", "l", "l">>)
    ELSE LET entry == IF provider = "anthropic" THEN data.value.anthropic ELSE data.value.codex
         IN IF entry.kind = "object" THEN Return(entry) ELSE Return(NullAuth)

readPiAuthUnguarded(file, provider) == readPiAuthTry(file, provider)

readPiAuth(file, provider) ==
    LET r == readPiAuthTry(file, provider) IN
    IF r.threw THEN Return(NullAuth) ELSE r

\* extractEmailFromJwt: undefined unless the token has at least two segments
\* whose second decodes to a JSON object carrying an email.
extractEmailFromJwtTry(tok) ==
    IF tok.kind # "string" THEN Throw("TypeError", <<"s", "p", "l", "i", "t">>)
    ELSE IF tok.segs < 2 THEN Return(Undefined)
    ELSE IF ~tok.payload.json THEN Throw("SyntaxError", <<"J", "S", "O", "N">>)
    ELSE IF tok.payload.profile # Undefined THEN Return(tok.payload.profile)
    ELSE IF tok.payload.email # Undefined THEN Return(tok.payload.email)
    ELSE IF tok.payload.auth # Undefined /\ tok.payload.auth # <<>> THEN Return(tok.payload.auth)
    ELSE Return(Undefined)

extractEmailFromJwt(tok) ==
    LET r == extractEmailFromJwtTry(tok) IN
    IF r.threw THEN Return(Undefined) ELSE r

\* The try block of readCodexAuth.
readCodexAuthTry(file) ==
    LET data == ReadJson(file) IN
    IF data.threw THEN data
    ELSE IF data.value.kind = "null" THEN Throw("TypeError", <<"n", "u", "l", "l">>)
    ELSE IF data.value.tokens.kind = "object" /\ Truthy(data.value.tokens.access_token)
         THEN Return([kind |-> "object",
                      accessToken |-> data.value.tokens.access_token,
                      email |-> extractEmailFromJwt(data.value.tokens.access_token).value])
         ELSE Return(NullAuth)

readCodexAuth(file) ==
    LET r == readCodexAuthTry(file) IN
    IF r.threw THEN Return(NullAuth) ELSE r

-----------------------------------------------------------------------------
(* Duration formatting *)

SecondsPerDay == 86400
SecondsPerHour == 3600
SecondsPerMinute == 60

formatSeconds(seconds) ==
    IF seconds <= 0 THEN <<"n", "o", "w">>
    ELSE LET days == seconds \div SecondsPerDay
             hours == (seconds % SecondsPerDay) \div SecondsPerHour
             minutes == (seconds % SecondsPerHour) \div SecondsPerMinute
         IN IF days > 0
              THEN NumStr(days) \o <<"d">> \o (IF hours > 0 THEN <<" ">> \o NumStr(hours) \o <<"h">> ELSE <<>>)
            ELSE IF hours > 0
              THEN NumStr(hours) \o <<"h">> \o (IF minutes > 0 THEN <<" ">> \o NumStr(minutes) \o <<"m">> ELSE <<>>)
            ELSE IF minutes > 0 THEN NumStr(minutes) \o <<"m">>
            ELSE <<"<", "1", "m">>

\* formatResetTimestamp, given floor((resetMs - now) / 1000).
formatResetTimestamp(diffSec) == formatSeconds(Max(0, diffSec))

-----------------------------------------------------------------------------
(* Response bodies and their mapping to windows *)

UsageWindow(label, percentUsed, resetIn) ==
    [label |-> label, percentUsed |-> percentUsed, resetIn |-> resetIn]

\* An Anthropic bucket: absent, or { utilization, resets_at? } with resets_at
\* given as its distance in seconds from now.
NoBucket == [present |-> FALSE]
Bucket(utilization, hasReset, resetsIn) ==
    [present |-> TRUE, utilization |-> utilization, hasReset |-> hasReset, resetsIn |-> resetsIn]

JsonNull == [kind |-> "null"]
AnthropicData(fiveHour, sevenDay, opus, sonnet) ==
    [kind |-> "object", five_hour |-> fiveHour, seven_day |-> sevenDay,
     seven_day_opus |-> opus, seven_day_sonnet |-> sonnet]

AnthropicWindow(label, b) ==
    IF b.present
    THEN <<UsageWindow(label, b.utilization,
                       IF b.hasReset THEN formatResetTimestamp(b.resetsIn) ELSE Undefined)>>
    ELSE <<>>

\* Lines 189-227 of the Anthropic client: the statements after `await res.json()`.
\* A thrown exception carries the windows pushed before it.
parseAnthropic(data) ==
    IF data.kind = "null"
    THEN [threw |-> TRUE, name |-> "TypeError",
          message |-> <<"n", "u", "l", "l", " ", "f", "i", "v", "e", "_", "h", "o", "u", "r">>,
          partial |-> <<>>]
    ELSE [threw |-> FALSE, plan |-> Undefined,
          windows |-> AnthropicWindow(Label5h, data.five_hour)
                      \o AnthropicWindow(LabelWeekly, data.seven_day)
                      \o AnthropicWindow(LabelOpus, data.seven_day_opus)
                      \o AnthropicWindow(LabelSonnet, data.seven_day_sonnet)]

\* A Codex window: absent, or { used_percent, reset_after_seconds? }.
NoWindow == [present |-> FALSE]
RateWindow(usedPercent, hasReset, resetAfter) ==
    [present |-> TRUE, used_percent |-> usedPercent, hasReset |-> hasReset,
     reset_after_seconds |-> resetAfter]
NoRateLimit == [present |-> FALSE]
RateLimit(pw, sw) == [present |-> TRUE, primary_window |-> pw, secondary_window |-> sw]

\* additional_rate_limits: absent, a value that is not iterable, or a list of
\* entries; an entry is null or { limit_name?, rate_limit? }.
NoExtras == [kind |-> "absent"]
BadExtras == [kind |-> "notIterable"]
Extras(list) == [kind |-> "list", list |-> list]
NullExtra == [kind |-> "null"]
Extra(limitName, rateLimit) == [kind |-> "object", limit_name |-> limitName, rate_limit |-> rateLimit]

CodexData(planType, rateLimit, extras, codeReview) ==
    [kind |-> "object", plan_type |-> planType, rate_limit |-> rateLimit,
     additional_rate_limits |-> extras, code_review_rate_limit |-> codeReview]

UsedOrZero(w) == IF w.present THEN w.used_percent ELSE 0
ResetOf(w) == IF w.present /\ w.hasReset THEN formatSeconds(w.reset_after_seconds) ELSE Undefined

IsPrefix(pre, text) == Len(pre) <= Len(text) /\ SubSeq(text, 1, Len(pre)) = pre

\* text.replace(/^GPT-/, "")
StripGpt(text) ==
    IF IsPrefix(<<"G", "P", "T", "-">>, text) THEN SubSeq(text, 5, Len(text)) ELSE text

\* text.replace(/-Codex-/, " "): the first occurrence only.
ReplaceCodex(text) ==
    LET pat == <<"-", "C", "o", "d", "e", "x", "-">>
        hits == {i \in 1..Len(text) : IsPrefix(pat, SubSeq(text, i, Len(text)))}
    IN IF hits = {} THEN text
       ELSE LET i == CHOOSE k \in hits : \A j \in hits : k <= j
            IN SubSeq(text, 1, i - 1) \o <<" ">> \o SubSeq(text, i + Len(pat), Len(text))

ShortName(limitName) == ReplaceCodex(StripGpt(limitName))

\* The loop over additional_rate_limits, from entry i on, with the windows
\* pushed so far.
RECURSIVE ExtraWindows(_, _, _)
ExtraWindows(list, i, acc) ==
    IF i > Len(list) THEN [threw |-> FALSE, windows |-> acc]
    ELSE LET extra == list[i] IN
         IF extra.kind = "null"
         THEN [threw |-> TRUE, name |-> "TypeError",
               message |-> <<"n", "u", "l", "l", " ", "l", "i", "m", "i", "t", "_", "n", "a", "m", "e">>,
               partial |-> acc]
         ELSE IF extra.limit_name = Undefined \/ extra.limit_name = <<>> \/ ~extra.rate_limit.present
         THEN ExtraWindows(list, i + 1, acc)
         ELSE LET pw == extra.rate_limit.primary_window
                  sw == extra.rate_limit.secondary_window
              IN IF ~(UsedOrZero(pw) > 0 \/ UsedOrZero(sw) > 0)
                 THEN ExtraWindows(list, i + 1, acc)
                 ELSE ExtraWindows(list, i + 1,
                          Append(acc, UsageWindow(ShortName(extra.limit_name),
                                                  Max(UsedOrZero(pw), UsedOrZero(sw)),
                                                  ResetOf(sw))))

\* Lines 270-324 of the Codex client: the statements after `await res.json()`.
parseCodex(data) ==
    IF data.kind = "null"
    THEN [threw |-> TRUE, name |-> "TypeError",
          message |-> <<"n", "u", "l", "l", " ", "p", "l", "a", "n", "_", "t", "y", "p", "e">>,
          partial |-> <<>>]
    ELSE LET rl == data.rate_limit
             w1 == IF rl.present /\ rl.primary_window.present
                   THEN <<UsageWindow(Label5h, rl.primary_window.used_percent, ResetOf(rl.primary_window))>>
                   ELSE <<>>
             w2 == IF rl.present /\ rl.secondary_window.present
                   THEN <<UsageWindow(LabelWeekly, rl.secondary_window.used_percent, ResetOf(rl.secondary_window))>>
                   ELSE <<>>
             ex == data.additional_rate_limits
             w3 == IF ex.kind = "absent" THEN [threw |-> FALSE, windows |-> w1 \o w2]
                   ELSE IF ex.kind = "notIterable"
                   THEN [threw |-> TRUE, name |-> "TypeError",
                         message |-> <<"n", "o", "t", " ", "i", "t", "e", "r", "a", "b", "l", "e">>,
                         partial |-> w1 \o w2]
                   ELSE ExtraWindows(ex.list, 1, w1 \o w2)
             cr == data.code_review_rate_limit
             w4 == IF cr.present /\ cr.primary_window.present /\ cr.primary_window.used_percent > 0
                   THEN <<UsageWindow(LabelCodeReview, cr.primary_window.used_percent, ResetOf(cr.primary_window))>>
                   ELSE <<>>
         IN IF w3.threw THEN w3
            ELSE [threw |-> FALSE, plan |-> data.plan_type, windows |-> w3.windows \o w4]

-----------------------------------------------------------------------------
(* Provider clients: the values they resolve with *)

Providers == {"anthropic", "codex"}
ProviderOrder == <<"anthropic", "codex">>   \* the array handed to Promise.all

ProviderName(p) == IF p = "anthropic" THEN AnthropicName ELSE CodexName
Links(p) == IF p = "anthropic" THEN ANTHROPIC_LINKS ELSE CODEX_LINKS

ProviderUsage(p, plan, acct, windows, error) ==
    [provider |-> ProviderName(p), plan |-> plan, account |-> acct,
     windows |-> windows, links |-> Links(p), error |-> error]

\* Lines 158-163 and 241-246.
NoCredentialsResult(p) == ProviderUsage(p, Undefined, Undefined, <<>>, NoCredentialsMsg)

SnippetLength == 100

\* Lines 180-186 and 261-267: `HTTP ${res.status}: ${text.slice(0, 100)}`.
HttpErrorResult(p, acct, status, text) ==
    ProviderUsage(p, Undefined, acct, <<>>,
                  HttpPrefix \o NumStr(status) \o ColonSpace \o Slice(text, 0, SnippetLength))

\* Lines 228-232 and 325-329: the catch block around the usage call.
UsageCatchKeepingWindows(p, acct, exc) ==
    ProviderUsage(p, Undefined, acct, exc.partial,
                  IF exc.name = "AbortError" THEN CancelledMsg ELSE exc.message)

UsageCatch(p, acct, exc) ==
    ProviderUsage(p, Undefined, acct, <<>>,
                  IF exc.name = "AbortError" THEN CancelledMsg ELSE exc.message)

\* Lines 227 and 324.
SuccessResult(p, acct, parsed) == ProviderUsage(p, parsed.plan, acct, parsed.windows, Undefined)

\* What fetch and the body readers reject with.
AbortError == [threw |-> TRUE, name |-> "AbortError",
               message |-> <<"T", "h", "i", "s", " ", "o", "p", "e", "r", "a", "t", "i", "o", "n", " ",
                             "w", "a", "s", " ", "a", "b", "o", "r", "t", "e", "d">>,
               partial |-> <<>>]
FetchFailed == [threw |-> TRUE, name |-> "TypeError",
                message |-> <<"f", "e", "t", "c", "h", " ", "f", "a", "i", "l", "e", "d">>,
                partial |-> <<>>]
JsonSyntaxError == [threw |-> TRUE, name |-> "SyntaxError",
                    message |-> <<"U", "n", "e", "x", "p", "e", "c", "t", "e", "d", " ", "t", "o", "k", "e", "n">>,
                    partial |-> <<>>]

NoResult == [pending |-> TRUE]
NoFrame == [accessToken |-> UndefToken, account |-> Undefined, accountId |-> Undefined, status |-> 0]

Request(endpoint, tok) == [endpoint |-> endpoint, bearer |-> tok]

\* a ?? b on strings
Coalesce(a, b) == IF a # Undefined THEN a ELSE b

-----------------------------------------------------------------------------
(* Provider clients: the synchronous prefix each runs when it is called *)

\* The outcome of running a call up to its first await (or to its return):
\* where it is suspended, its locals, its result if it returned, and the
\* request it issued.
Started(at, fr, res, reqs) == [pc |-> at, frame |-> fr, result |-> res, requests |-> reqs]
Rejected == Started("rejected", NoFrame, NoResult, {})

\* fetchAnthropicUsage, lines 155-177, up to the first await.
StartAnthropic(file) ==
    LET auth == readPiAuth(file, "anthropic") IN
    IF auth.threw THEN Rejected
    ELSE IF auth.value.kind = "null"
    THEN Started("settled", NoFrame, NoCredentialsResult("anthropic"), {})
    ELSE LET access == auth.value.access
             email == extractEmailFromJwt(access)
         IN IF email.threw THEN Rejected
            ELSE IF email.value # Undefined
            THEN Started("usage",
                         [accessToken |-> access, account |-> email.value,
                          accountId |-> auth.value.accountId, status |-> 0],
                         NoResult, {Request("usage:anthropic", access)})
            ELSE Started("profile",
                         [accessToken |-> access, account |-> Undefined,
                          accountId |-> auth.value.accountId, status |-> 0],
                         NoResult, {Request("profile:anthropic", access)})

\* Line 238: piAuth?.access ?? codexAuth?.accessToken
CodexAccessToken(piAuth, codexAuth) ==
    IF piAuth.kind = "object" /\ piAuth.access.kind # "undefined" THEN piAuth.access
    ELSE IF codexAuth.kind = "object" THEN codexAuth.accessToken
    ELSE UndefToken

\* Line 249: extractEmailFromJwt(accessToken) ?? codexAuth?.email ?? piAuth?.accountId
CodexAccount(accessToken, piAuth, codexAuth) ==
    Coalesce(extractEmailFromJwt(accessToken).value,
             Coalesce(IF codexAuth.kind = "object" THEN codexAuth.email ELSE Undefined,
                      IF piAuth.kind = "object" THEN piAuth.accountId ELSE Undefined))

\* fetchCodexUsage, lines 235-257, up to the first await.
StartCodex(primary, secondary) ==
    LET piAuth == readPiAuth(primary, "openai-codex")
        codexAuth == readCodexAuth(secondary)
    IN IF piAuth.threw \/ codexAuth.threw THEN Rejected
       ELSE LET accessToken == CodexAccessToken(piAuth.value, codexAuth.value) IN
            IF ~Truthy(accessToken)
            THEN Started("settled", NoFrame, NoCredentialsResult("codex"), {})
            ELSE Started("usage",
                         [accessToken |-> accessToken,
                          account |-> CodexAccount(accessToken, piAuth.value, codexAuth.value),
                          accountId |-> Undefined, status |-> 0],
                         NoResult, {Request("usage:codex", accessToken)})

-----------------------------------------------------------------------------
(* Inputs: what the stores hold and what the network answers *)

EmailInToken == <<"t", "@", "x">>
EmailInProfile == <<"p", "@", "x">>
EmailInLegacy == <<"l", "@", "x">>
AccountIdA == <<"a", "c", "c", "t", "-", "a">>
AccountIdC == <<"a", "c", "c", "t", "-", "c">>
TokenA == <<"t", "o", "k", "A">>
TokenC == <<"t", "o", "k", "C">>
TokenL == <<"t", "o", "k", "L">>

AnthropicEntries ==
    {AbsentEntry,
     PiAuth(UndefToken, AccountIdA),
     PiAuth(OpaqueToken(TokenA), Undefined),
     PiAuth(GarbledJwt(TokenA), AccountIdA),
     PiAuth(JwtToken(TokenA, Payload(Undefined, Undefined, Undefined)), AccountIdA),
     PiAuth(JwtToken(TokenA, Payload(EmailInToken, Undefined, Undefined)), AccountIdA)}

CodexEntries ==
    {AbsentEntry,
     PiAuth(UndefToken, AccountIdC),
     PiAuth(EmptyToken, AccountIdC),
     PiAuth(OpaqueToken(TokenC), Undefined),
     PiAuth(OpaqueToken(TokenC), AccountIdC),
     PiAuth(JwtToken(TokenC, Payload(Undefined, EmailInToken, Undefined)), AccountIdC)}

PiFiles ==
    {MissingFile, MalformedFile, JsonNullFile}
    \cup {PiObject(a, c) : a \in AnthropicEntries, c \in CodexEntries}

CodexFiles ==
    {MissingFile, MalformedFile,
     CodexObject(NoTokens),
     CodexObject(Tokens(EmptyToken)),
     CodexObject(Tokens(OpaqueToken(TokenL))),
     CodexObject(Tokens(JwtToken(TokenL, Payload(Undefined, Undefined, EmailInLegacy))))}

\* Bodies of the profile endpoint: null, { account: {} }, { account: { email } }.
ProfileBodies ==
    {[kind |-> "null"], [kind |-> "object", email |-> Undefined],
     [kind |-> "object", email |-> EmailInProfile]}

NotOkStatuses == {401, 500}

ErrorTexts == {<<>>, Repeat("x", SnippetLength + 1)}

AnthropicBodies ==
    {JsonNull,
     AnthropicData(NoBucket, NoBucket, NoBucket, NoBucket),
     AnthropicData(Bucket(34, TRUE, 18000), Bucket(81, FALSE, 0), NoBucket, NoBucket),
     AnthropicData(Bucket(0, TRUE, 90000), Bucket(100, TRUE, 0), Bucket(110, FALSE, 0), Bucket(50, TRUE, 45))}

MiniName == <<"G", "P", "T", "-", "5", "-", "C", "o", "d", "e", "x", "-", "m", "i", "n", "i">>
PlanPlus == <<"p", "l", "u", "s">>

CodexBodies ==
    {JsonNull,
     CodexData(Undefined, NoRateLimit, NoExtras, NoRateLimit),
     CodexData(PlanPlus, RateLimit(RateWindow(34, TRUE, 5400), RateWindow(81, FALSE, 0)),
               NoExtras, RateLimit(RateWindow(0, TRUE, 60), NoWindow)),
     CodexData(PlanPlus, RateLimit(RateWindow(34, TRUE, 5400), NoWindow),
               BadExtras, NoRateLimit),
     CodexData(Undefined, RateLimit(RateWindow(5, FALSE, 0), RateWindow(9, TRUE, 90000)),
               Extras(<<Extra(MiniName, RateLimit(RateWindow(0, FALSE, 0), RateWindow(0, FALSE, 0))),
                        Extra(MiniName, RateLimit(RateWindow(0, FALSE, 0), RateWindow(12, TRUE, 45))),
                        Extra(Undefined, NoRateLimit)>>),
               RateLimit(RateWindow(12, FALSE, 0), NoWindow)),
     CodexData(Undefined, RateLimit(NoWindow, RateWindow(9, TRUE, 30)),
               Extras(<<Extra(MiniName, RateLimit(NoWindow, RateWindow(12, FALSE, 0))), NullExtra>>),
               NoRateLimit)}

Bodies(p) == IF p = "anthropic" THEN AnthropicBodies ELSE CodexBodies
Parse(p, data) == IF p = "anthropic" THEN parseAnthropic(data) ELSE parseCodex(data)

Keys == {"escape", "return", "q", "j"}

-----------------------------------------------------------------------------
(* The controller and the two provider calls *)

\* The renderer's own inputs and outputs, unused by the controller.
NotRendered == [pending |-> TRUE]
NotFitted == <<"pending">>
RenderIdle == rWidth = 0 /\ rState = "loading" /\ rResults = <<>> /\ rLines = NotRendered
FitIdle == fText = <<>> /\ fMax = 0 /\ fOut = NotFitted
GaugeIdle == gWin = [label |-> <<>>, percentUsed |-> 0, resetIn |-> Undefined] /\ gOut = NotRendered

Init ==
    /\ piFile \in PiFiles
    /\ codexFile \in CodexFiles
    /\ panel = "idle"
    /\ state = "loading"
    /\ results = <<>>
    /\ aborted = FALSE
    /\ pc = [p \in Providers |-> "idle"]
    /\ frame = [p \in Providers |-> NoFrame]
    /\ result = [p \in Providers |-> NoResult]
    /\ requests = {}
    /\ settleOrder = <<>>
    /\ abortedAt = [p \in Providers |-> "none"]
    /\ RenderIdle /\ FitIdle /\ GaugeIdle

\* index.ts 14-31: the /usage handler builds the component: state and
\* results are initialised, the controller is created, and both provider
\* calls run, one after the other, each up to its first await.
Invoke ==
    /\ panel = "idle"
    /\ LET a == StartAnthropic(piFile)
           c == StartCodex(piFile, codexFile)
           st == [p \in Providers |-> IF p = "anthropic" THEN a ELSE c]
       IN /\ pc' = [p \in Providers |-> st[p].pc]
          /\ frame' = [p \in Providers |-> st[p].frame]
          /\ result' = [p \in Providers |-> st[p].result]
          /\ requests' = a.requests \cup c.requests
          /\ settleOrder' = SelectSeq(ProviderOrder, LAMBDA p : st[p].pc \in {"settled", "rejected"})
    /\ panel' = "open"
    /\ state' = "loading"
    /\ results' = <<>>
    /\ aborted' = FALSE
    /\ UNCHANGED <<piFile, codexFile, abortedAt, renderVars, fitVars, gaugeVars>>

\* A call resolves with a ProviderUsage.
Settle(p, res) ==
    /\ pc' = [pc EXCEPT ![p] = "settled"]
    /\ result' = [result EXCEPT ![p] = res]
    /\ settleOrder' = Append(settleOrder, p)
    /\ UNCHANGED <<frame, requests>>

\* fetchAnthropicUsage line 167 after the profile lookup, then lines 169-176:
\* the account is chosen and the usage request is issued.  fetch with an
\* aborted signal rejects without sending anything.
IssueUsage(p, email) ==
    /\ frame' = [frame EXCEPT ![p].account = Coalesce(email, frame[p].accountId)]
    /\ pc' = [pc EXCEPT ![p] = "usage"]
    /\ requests' = IF aborted THEN requests
                   ELSE requests \cup {Request("usage:anthropic", frame[p].accessToken)}
    /\ UNCHANGED <<result, settleOrder>>

\* fetchAnthropicProfileEmail lines 104-111: the profile response arrives,
\* fails, or the fetch is aborted; every failure yields undefined.
ProfileResponse ==
    /\ pc["anthropic"] = "profile"
    /\ IF aborted THEN IssueUsage("anthropic", Undefined)
       ELSE \E outcome \in {"ok", "notOk", "failed"} :
              IF outcome = "ok"
              THEN /\ pc' = [pc EXCEPT !["anthropic"] = "profileBody"]
                   /\ UNCHANGED <<frame, result, requests, settleOrder>>
              ELSE IssueUsage("anthropic", Undefined)
    /\ UNCHANGED <<piFile, codexFile, panel, state, results, aborted, abortedAt,
                   renderVars, fitVars, gaugeVars>>

\* Lines 112-117: data.account?.email of the parsed profile body.
ProfileEmail(body) ==
    IF body.kind = "unparsable" \/ body.kind = "null" THEN Undefined
    ELSE IF body.email # Undefined /\ body.email # <<>> THEN body.email
    ELSE Undefined

ProfileBody ==
    /\ pc["anthropic"] = "profileBody"
    /\ IF aborted THEN IssueUsage("anthropic", Undefined)
       ELSE \E body \in ProfileBodies \cup {[kind |-> "unparsable"]} :
              IssueUsage("anthropic", ProfileEmail(body))
    /\ UNCHANGED <<piFile, codexFile, panel, state, results, aborted, abortedAt,
                   renderVars, fitVars, gaugeVars>>

\* Lines 170-178 / 252-259: the usage fetch settles.
UsageResponse(p) ==
    /\ pc[p] = "usage"
    /\ IF aborted THEN Settle(p, UsageCatch(p, frame[p].account, AbortError))
       ELSE \/ /\ pc' = [pc EXCEPT ![p] = "okBody"]
               /\ frame' = [frame EXCEPT ![p].status = 200]
               /\ UNCHANGED <<result, requests, settleOrder>>
            \/ \E s \in NotOkStatuses :
               /\ pc' = [pc EXCEPT ![p] = "errBody"]
               /\ frame' = [frame EXCEPT ![p].status = s]
               /\ UNCHANGED <<result, requests, settleOrder>>
            \/ Settle(p, UsageCatch(p, frame[p].account, FetchFailed))
    /\ UNCHANGED <<piFile, codexFile, panel, state, results, aborted, abortedAt,
                   renderVars, fitVars, gaugeVars>>

\* Lines 189-227 / 270-324: res.json() settles and the body is mapped.
UsageOkBody(p) ==
    /\ pc[p] = "okBody"
    /\ IF aborted THEN Settle(p, UsageCatch(p, frame[p].account, AbortError))
       ELSE \/ Settle(p, UsageCatch(p, frame[p].account, JsonSyntaxError))
            \/ \E data \in Bodies(p) :
               LET parsed == Parse(p, data) IN
               IF parsed.threw THEN Settle(p, UsageCatch(p, frame[p].account, parsed))
               ELSE Settle(p, SuccessResult(p, frame[p].account, parsed))
    /\ UNCHANGED <<piFile, codexFile, panel, state, results, aborted, abortedAt,
                   renderVars, fitVars, gaugeVars>>

\* Lines 178-187 / 259-268: res.text().catch(() => "") settles: the text,
\* or "" when reading the body failed or was aborted.
UsageErrBody(p) ==
    /\ pc[p] = "errBody"
    /\ IF aborted THEN Settle(p, HttpErrorResult(p, frame[p].account, frame[p].status, <<>>))
       ELSE \E text \in ErrorTexts :
              Settle(p, HttpErrorResult(p, frame[p].account, frame[p].status, text))
    /\ UNCHANGED <<piFile, codexFile, panel, state, results, aborted, abortedAt,
                   renderVars, fitVars, gaugeVars>>

\* index.ts 36-41: Escape, Enter or q abort the shared signal and close the
\* panel; any other key does nothing.
HandleInput ==
    /\ panel = "open"
    /\ \E key \in Keys :
         IF key \in {"escape", "return", "q"}
         THEN /\ aborted' = TRUE
              /\ panel' = "closed"
              /\ abortedAt' = [p \in Providers |-> IF aborted THEN abortedAt[p] ELSE pc[p]]
         ELSE UNCHANGED <<aborted, panel, abortedAt>>
    /\ UNCHANGED <<piFile, codexFile, state, results, pc, frame, result, requests,
                   settleOrder, renderVars, fitVars, gaugeVars>>

\* Promise.all: fulfilled once every call has resolved, rejected as soon as
\* one has rejected.
JoinRejected == \E p \in Providers : pc[p] = "rejected"
JoinFulfilledEarly == \E p \in Providers : pc[p] = "settled"
JoinFulfilled == \A p \in Providers : pc[p] = "settled"

\* The value Promise.all fulfils with: the results in the order of its input.
JoinValueBySettleOrder == [i \in 1..Len(settleOrder) |-> result[settleOrder[i]]]
JoinValue == [i \in 1..Len(ProviderOrder) |-> result[ProviderOrder[i]]]

\* index.ts 21-30: the .then / .catch continuation of the join.
JoinSettled ==
    /\ panel # "idle"
    /\ state = "loading"
    /\ JoinRejected \/ JoinFulfilled
    /\ IF JoinRejected
       THEN state' = "error" /\ UNCHANGED results
       ELSE state' = "done" /\ results' = JoinValue
    /\ UNCHANGED <<piFile, codexFile, panel, aborted, pc, frame, result, requests,
                   settleOrder, abortedAt, renderVars, fitVars, gaugeVars>>

Next ==
    \/ Invoke
    \/ ProfileResponse
    \/ ProfileBody
    \/ \E p \in Providers : UsageResponse(p)
    \/ \E p \in Providers : UsageOkBody(p)
    \/ \E p \in Providers : UsageErrBody(p)
    \/ HandleInput
    \/ JoinSettled

Spec == Init /\ [][Next]_vars

-----------------------------------------------------------------------------
(* Renderer: host helpers *)

\* Escape sequences: colour on/off, bold on/off, reset, hyperlink open/close.
\* Each is one cell that takes no column.
Roles == {"border", "muted", "error", "accent", "dim", "text", "success", "warning"}
LinkUrls == {"https://console.anthropic.com/settings/usage", "https://status.anthropic.com",
             "https://chatgpt.com/codex/settings/usage", "https://status.openai.com",
             "https://github.com/taviks/pi-llm-usage"}
SgrOn(role) == "\\e[fg:" \o role
SgrOff == "\\e[39m"
BoldOn == "\\e[1m"
BoldOff == "\\e[22m"
SgrReset == "\\e[0m"
OscOpen(url) == "\\e]8;;" \o url
OscClose == "\\e]8;;"
EscapeCells ==
    {SgrOn(r) : r \in Roles} \cup {OscOpen(u) : u \in LinkUrls}
    \cup {SgrOff, BoldOn, BoldOff, SgrReset, OscClose}

\* theme.fg(role, text), theme.bold(text): styled text of the same visible width.
fg(role, text) == <<SgrOn(role)>> \o text \o <<SgrOff>>
bold(text) == <<BoldOn>> \o text \o <<BoldOff>>

\* visibleWidth(text): the columns text takes, escape sequences not counted.
visibleWidth(text) == Len(SelectSeq(text, LAMBDA c : c \notin EscapeCells))

\* The longest prefix of text that takes at most n columns.
TakeColumns(text, n) ==
    LET fits == {k \in 0..Len(text) : visibleWidth(SubSeq(text, 1, k)) <= n}
    IN IF fits = {} THEN <<>>
       ELSE SubSeq(text, 1, CHOOSE k \in fits : \A j \in fits : j <= k)

\* truncateToWidth(text, maxWidth, ellipsis, pad): text cut to maxWidth
\* columns (a reset and the ellipsis appended when it was cut), and with pad
\* filled with spaces up to maxWidth.
truncateToWidth(text, maxWidth, ellipsis, pad) ==
    LET w == visibleWidth(text)
        cut == IF w <= maxWidth THEN text
               ELSE IF maxWidth - visibleWidth(ellipsis) <= 0 THEN Slice(ellipsis, 0, maxWidth)
               ELSE TakeColumns(text, maxWidth - visibleWidth(ellipsis)) \o <<SgrReset>> \o ellipsis
    IN IF pad THEN cut \o Repeat(" ", maxWidth - visibleWidth(cut)) ELSE cut

-----------------------------------------------------------------------------
(* Renderer: index.ts 176-225 *)

\* String.prototype.repeat: a negative count throws RangeError.
RepeatThrows(n) == n < 0

padEnd(text, n) == text \o Repeat(" ", n - Len(text))
padStart(text, n) == Repeat(" ", n - Len(text)) \o text

hyperlink(url, text) == <<OscOpen(url)>> \o text \o <<OscClose>>

RECURSIVE renderLinksFrom(_, _)
renderLinksFrom(links, i) ==
    IF i > Len(links) THEN <<>>
    ELSE (IF i > 1 THEN <<" ">> ELSE <<>>)
         \o hyperlink(links[i].url, fg("dim", <<"[">>) \o fg("muted", links[i].label) \o fg("dim", <<"]">>))
         \o renderLinksFrom(links, i + 1)

renderLinks(links) == renderLinksFrom(links, 1)

RECURSIVE SumLabelWidths(_, _)
SumLabelWidths(links, i) ==
    IF i > Len(links) THEN 0 ELSE Len(links[i].label) + 2 + SumLabelWidths(links, i + 1)

linksVisibleWidth(links) ==
    IF Len(links) = 0 THEN 0 ELSE SumLabelWidths(links, 1) + (Len(links) - 1)

fitTextEndByCut(text, maxLength) ==
    IF Len(text) <= maxLength THEN text
    ELSE IF Len(text) - maxLength <= 3 THEN Slice(text, 0, maxLength)
    ELSE Slice(text, 0, maxLength - 3) \o <<".", ".", ".">>

fitTextEnd(text, maxLength) ==
    IF Len(text) <= maxLength THEN text
    ELSE IF maxLength <= 3 THEN Slice(text, 0, maxLength)
    ELSE Slice(text, 0, maxLength - 3) \o <<".", ".", ".">>

gaugeWidth == 8

\* Math.round((remaining / 100) * gaugeWidth) for an integer remaining:
\* floor(x + 1/2).
GaugeFilled(remaining) == (2 * remaining * gaugeWidth + 100) \div 200

GaugeColor(remaining) ==
    IF remaining <= 20 THEN "error" ELSE IF remaining <= 50 THEN "warning" ELSE "success"

\* renderUsageRow: the row text, with the gauge's two counts; threw when a
\* repeat count is negative.
renderUsageRow(win, labelWidth, maxWidth) ==
    LET remaining == 100 - win.percentUsed
        color == GaugeColor(remaining)
        filled == GaugeFilled(remaining)
        empty == gaugeWidth - filled
    IN IF RepeatThrows(filled) \/ RepeatThrows(empty)
       THEN [threw |-> TRUE, filled |-> filled, empty |-> empty, text |-> <<>>]
       ELSE LET gauge == fg("dim", <<"[">>) \o fg(color, Repeat("#", filled))
                         \o fg("dim", Repeat(".", empty)) \o fg("dim", <<"]">>)
                label == padEnd(win.label, labelWidth)
                pct == padStart(NumStr(remaining) \o <<"%">>, 4)
                reset == IF win.resetIn # Undefined /\ win.resetIn # <<>>
                         THEN fg("dim", <<" ", "r", "e", "s", "e", "t", "s", " ", "i", "n", " ">> \o win.resetIn)
                         ELSE <<>>
            IN [threw |-> FALSE, filled |-> filled, empty |-> empty,
                text |-> fg("text", label) \o <<" ">> \o gauge \o <<" ">> \o fg(color, pct)
                         \o <<" ", "l", "e", "f", "t">> \o reset]

-----------------------------------------------------------------------------
(* Renderer: renderPanel, index.ts 59-174 *)

contentPadding == 2
accountWidthCap == 40

LoadingText == <<"F", "e", "t", "c", "h", "i", "n", "g", " ", "u", "s", "a", "g", "e", " ", "d", "a", "t", "a", ".", ".", ".">>
FailedText == <<"F", "a", "i", "l", "e", "d", " ", "t", "o", " ", "f", "e", "t", "c", "h", " ", "u", "s", "a", "g", "e", " ", "d", "a", "t", "a">>
NoDataText == <<"N", "o", " ", "u", "s", "a", "g", "e", " ", "d", "a", "t", "a", " ", "a", "v", "a", "i", "l", "a", "b", "l", "e">>
footerRight == <<"e", "s", "c", "/", "q", " ", "t", "o", " ", "c", "l", "o", "s", "e">>
FooterLeftText == <<"[", "s", "t", "a", "r", "/", "f", "o", "r", "k", "]">>

innerW(width) == width - 2
contentArea(width) == innerW(width) - contentPadding * 2

rowUnpadded(width, content) ==
    fg("border", <<"|">>) \o Repeat(" ", contentPadding)
    \o truncateToWidth(content, contentArea(width), <<>>, FALSE)
    \o Repeat(" ", contentPadding) \o fg("border", <<"|">>)

\* Lines 72-80.
row(width, content) ==
    fg("border", <<"|">>) \o Repeat(" ", contentPadding)
    \o truncateToWidth(content, contentArea(width), <<>>, TRUE)
    \o Repeat(" ", contentPadding) \o fg("border", <<"|">>)

\* Lines 82-91.
rowExact(width, content, visibleLen) ==
    fg("border", <<"|">>) \o Repeat(" ", contentPadding) \o content
    \o Repeat(" ", Max(0, contentArea(width) - visibleLen))
    \o Repeat(" ", contentPadding) \o fg("border", <<"|">>)

\* Line 93.
emptyRow(width) == fg("border", <<"|">>) \o Repeat(" ", innerW(width)) \o fg("border", <<"|">>)

\* Lines 95-97.
verticalPad(width, n) == [i \in 1..n |-> emptyRow(width)]

topBorder(width) == fg("border", <<"+">> \o Repeat("-", innerW(width)) \o <<"+">>)
bottomBorder(width) == topBorder(width)

RECURSIVE MaxLabelIn(_, _)
MaxLabelIn(windows, j) ==
    IF j > Len(windows) THEN 0 ELSE Max(Len(windows[j].label), MaxLabelIn(windows, j + 1))

\* Lines 108-113.
RECURSIVE sharedLabelWidthFrom(_, _)
sharedLabelWidthFrom(res, i) ==
    IF i > Len(res) THEN 0
    ELSE Max(MaxLabelIn(res[i].windows, 1), sharedLabelWidthFrom(res, i + 1))

IsSet(text) == text # Undefined /\ text # <<>>

\* Lines 116-135: the heading row of one provider.
headerRow(width, r) ==
    LET providerLabel == IF IsSet(r.plan) THEN r.provider \o <<" ", "(">> \o r.plan \o <<")">>
                         ELSE r.provider
        linksStr == renderLinks(r.links)
        lw == linksVisibleWidth(r.links)
        providerLabelWidth == visibleWidth(providerLabel)
        accountMaxWidth == Max(0, Min(accountWidthCap, contentArea(width) - providerLabelWidth - lw - 2))
        accountPart == IF IsSet(r.account) /\ accountMaxWidth > 2
                       THEN <<"(">> \o fitTextEnd(r.account, accountMaxWidth - 2) \o <<")">>
                       ELSE <<>>
        rightClusterWidth == lw + (IF accountPart # <<>> THEN visibleWidth(accountPart) + 1 ELSE 0)
        gap == Max(1, contentArea(width) - providerLabelWidth - rightClusterWidth)
    IN row(width, fg("accent", bold(providerLabel)) \o Repeat(" ", gap)
                  \o (IF accountPart # <<>> THEN fg("muted", accountPart) \o <<" ">> ELSE <<>>)
                  \o linksStr)

\* Lines 144-146: one row per window; threw when a window row throws.
RECURSIVE windowRows(_, _, _, _)
windowRows(width, windows, labelWidth, j) ==
    IF j > Len(windows) THEN [threw |-> FALSE, lines |-> <<>>]
    ELSE LET u == renderUsageRow(windows[j], labelWidth, innerW(width) - 2) IN
         IF u.threw THEN [threw |-> TRUE, lines |-> <<>>]
         ELSE LET rest == windowRows(width, windows, labelWidth, j + 1) IN
              IF rest.threw THEN rest
              ELSE [threw |-> FALSE, lines |-> <<row(width, u.text)>> \o rest.lines]

\* Lines 115-152: the sections of the done state.
RECURSIVE sections(_, _, _, _)
sections(width, res, labelWidth, i) ==
    IF i > Len(res) THEN [threw |-> FALSE, lines |-> <<>>]
    ELSE LET r == res[i]
             body == IF IsSet(r.error)
                     THEN [threw |-> FALSE, lines |-> <<row(width, fg("error", <<"!", " ">> \o r.error))>>]
                     ELSE IF Len(r.windows) = 0
                     THEN [threw |-> FALSE, lines |-> <<row(width, fg("muted", NoDataText))>>]
                     ELSE windowRows(width, r.windows, labelWidth, 1)
         IN IF body.threw THEN body
            ELSE LET rest == sections(width, res, labelWidth, i + 1) IN
                 IF rest.threw THEN rest
                 ELSE [threw |-> FALSE,
                       lines |-> <<headerRow(width, r), emptyRow(width)>> \o body.lines
                                 \o (IF i < Len(res) THEN verticalPad(width, contentPadding) ELSE <<>>)
                                 \o rest.lines]

\* Lines 155-169: the footer row.
footerRow(width) ==
    LET footerRightWidth == visibleWidth(footerRight)
        footerLeftMax == Max(0, contentArea(width) - footerRightWidth - 1)
        footerLeftLabel == fitTextEnd(FooterLeftText, footerLeftMax)
        footerLeft == IF footerLeftLabel # <<>>
                      THEN hyperlink("https://github.com/taviks/pi-llm-usage", footerLeftLabel)
                      ELSE <<>>
        footerLeftWidth == Len(footerLeftLabel)
        footerGap == Max(0, contentArea(width) - footerLeftWidth - footerRightWidth)
    IN rowExact(width,
                fg("dim", footerLeft) \o Repeat(" ", footerGap) \o fg("dim", footerRight),
                footerLeftWidth + footerGap + footerRightWidth)

renderPanel(width, st, res) ==
    LET verticalPadding == contentPadding
        bottomEdgePadding == Max(0, verticalPadding - 1)
        body == IF st = "loading" THEN [threw |-> FALSE, lines |-> <<row(width, fg("muted", LoadingText))>>]
                ELSE IF st = "error" THEN [threw |-> FALSE, lines |-> <<row(width, fg("error", FailedText))>>]
                ELSE sections(width, res, sharedLabelWidthFrom(res, 1), 1)
    IN IF body.threw THEN [threw |-> TRUE, lines |-> <<>>]
       ELSE [threw |-> FALSE,
             lines |-> <<topBorder(width)>> \o verticalPad(width, verticalPadding)
                       \o body.lines
                       \o verticalPad(width, verticalPadding)
                       \o <<footerRow(width)>>
                       \o verticalPad(width, bottomEdgePadding)
                       \o <<bottomBorder(width)>>]

-----------------------------------------------------------------------------
(* Claims about the provider clients and the controller *)

Settled(p) == pc[p] = "settled"
ErrorSet(res) == res.error # Undefined /\ res.error # <<>>
RequestsOf(p) ==
    {r \in requests : r.endpoint \in (IF p = "anthropic"
                                       THEN {"profile:anthropic", "usage:anthropic"}
                                       ELSE {"usage:codex"})}

\* C1: a call whose signal was aborted while it was suspended anywhere before
\* its return (profile lookup, usage fetch, reading a 2xx or a non-2xx body)
\* resolves with error exactly "Cancelled" and no windows.
C1_AbortYieldsCancelled ==
    \A p \in Providers :
        (Settled(p) /\ abortedAt[p] \in {"profile", "profileBody", "usage", "okBody", "errBody"})
            => (result[p].error = CancelledMsg /\ result[p].windows = <<>>)

\* C2: neither provider call ever rejects, whatever the stores hold, whatever
\* the network answers and whenever the signal is aborted.
C2_NeverRejects == \A p \in Providers : pc[p] # "rejected"

C2_Witness ==
    /\ piFile = MalformedFile
    /\ codexFile.kind = "object" /\ codexFile.tokens.kind = "object"
    /\ Settled("anthropic") /\ result["anthropic"].error = NoCredentialsMsg
    /\ Settled("codex") /\ result["codex"].error = JsonSyntaxError.message

\* C3: every ProviderUsage a call resolves with has no windows when its error
\* is set, also when the failure came after windows had been pushed.
C3_ErrorImpliesNoWindows ==
    \A p \in Providers : (Settled(p) /\ ErrorSet(result[p])) => result[p].windows = <<>>

C3_Witness ==
    /\ Settled("codex")
    /\ result["codex"].error = <<"n", "o", "t", " ", "i", "t", "e", "r", "a", "b", "l", "e">>
    /\ result["codex"].windows = <<>>

\* Whether a store yields a usable access token for a provider.
PrimaryYields(file, p) ==
    /\ file.kind = "object"
    /\ LET entry == IF p = "anthropic" THEN file.anthropic ELSE file.codex
       IN entry.kind = "object" /\ Truthy(entry.access)
SecondaryYields(file) ==
    file.kind = "object" /\ file.tokens.kind = "object" /\ Truthy(file.tokens.access_token)
YieldsToken(p) ==
    PrimaryYields(piFile, p) \/ (p = "codex" /\ SecondaryYields(codexFile))

\* C4: when no store yields an access token for a provider, its call resolves
\* at once with "No OAuth credentials found", no windows and the static
\* links, and no request for that provider is issued.
C4_NoTokenNoRequest ==
    \A p \in Providers :
        (panel # "idle" /\ ~YieldsToken(p))
            => /\ Settled(p)
               /\ result[p] = NoCredentialsResult(p)
               /\ RequestsOf(p) = {}

\* C5: the Codex bearer token is the primary store's when that store yields a
\* usable token, else the secondary store's when that one does, and "No OAuth
\* credentials found" is returned only when neither yields one.
C5_FirstStoreWins ==
    panel # "idle" =>
        IF PrimaryYields(piFile, "codex")
        THEN RequestsOf("codex") = {Request("usage:codex", piFile.codex.access)}
        ELSE IF SecondaryYields(codexFile)
        THEN RequestsOf("codex") = {Request("usage:codex", codexFile.tokens.access_token)}
        ELSE Settled("codex") /\ result["codex"] = NoCredentialsResult("codex")

\* C6: the RenderState leaves loading at most once; it is done only when both
\* calls have resolved, error only when the join rejected, and closing the
\* panel never makes it error.
C6_StateChangesOnce ==
    /\ [](state = "done" => \A p \in Providers : Settled(p))
    /\ [](state = "error" => (\E p \in Providers : pc[p] = "rejected"))
    /\ [](panel = "closed" => state # "error")
    /\ [][state # "loading" => state' = state]_vars

C6_Witness ==
    /\ state = "done"
    /\ panel = "closed"
    /\ \E p \in Providers : abortedAt[p] \in {"profile", "profileBody", "usage", "okBody"}
                            /\ result[p].error = CancelledMsg

\* C7: both calls are started by the same handler turn, and a done state holds
\* exactly two results, Anthropic's then Codex's, whichever settled first.
C7_FixedOrder ==
    /\ panel # "idle" => \A p \in Providers : pc[p] # "idle"
    /\ state = "done" =>
         /\ Len(results) = 2
         /\ results[1] = result["anthropic"] /\ results[1].provider = AnthropicName
         /\ results[2] = result["codex"] /\ results[2].provider = CodexName

C7_Witness ==
    /\ state = "done"
    /\ settleOrder = <<"codex", "anthropic">>
    /\ frame["anthropic"].account = EmailInProfile

\* The account identifier stored alongside the credential whose token is the
\* bearer: the primary entry's accountId when the bearer is that entry's
\* access token, none for the secondary store.
StoredAccountId(p) ==
    LET entry == IF p = "anthropic" THEN piFile.anthropic ELSE piFile.codex IN
    IF PrimaryYields(piFile, p) /\ frame[p].accessToken = entry.access
    THEN entry.accountId ELSE Undefined

\* C11: the account of a returned ProviderUsage is the email decoded from the
\* bearer token, else (Anthropic only) an email from the profile lookup, else
\* the account identifier stored alongside that credential; it never comes
\* from a credential held in another store.
C11_AccountFromBearerCredential ==
    \A p \in Providers :
        (Settled(p) /\ Truthy(frame[p].accessToken)) =>
            LET tokenEmail == extractEmailFromJwt(frame[p].accessToken).value IN
            IF tokenEmail # Undefined THEN result[p].account = tokenEmail
            ELSE result[p].account \in
                   {StoredAccountId(p)} \cup (IF p = "anthropic" THEN {EmailInProfile} ELSE {})

-----------------------------------------------------------------------------
(* The renderer on its own: every input the overlay can hand it *)

MinWidth == 44
NominalWidth == 58
MaxAccountLen == 45
MaxLabelLen == 40
MaxPercentUsed == 120
MaxTextLen == 8

ControllerIdle ==
    /\ piFile = MissingFile /\ codexFile = MissingFile
    /\ panel = "idle" /\ state = "loading" /\ results = <<>> /\ aborted = FALSE
    /\ pc = [p \in Providers |-> "idle"]
    /\ frame = [p \in Providers |-> NoFrame]
    /\ result = [p \in Providers |-> NoResult]
    /\ requests = {} /\ settleOrder = <<>>
    /\ abortedAt = [p \in Providers |-> "none"]

Widths == MinWidth..NominalWidth

LongError == HttpPrefix \o NumStr(500) \o ColonSpace \o Repeat("x", SnippetLength)

RenderResults ==
    {ProviderUsage("anthropic", Undefined, Undefined, <<>>, NoCredentialsMsg),
     ProviderUsage("anthropic", Undefined, Repeat("a", MaxAccountLen),
                   <<UsageWindow(Label5h, 34, formatSeconds(18000))>>, Undefined),
     ProviderUsage("anthropic", Undefined, EmailInToken,
                   <<UsageWindow(Label5h, 0, formatSeconds(90000)),
                     UsageWindow(LabelWeekly, 100, Undefined),
                     UsageWindow(LabelOpus, 81, formatSeconds(45)),
                     UsageWindow(LabelSonnet, 50, formatSeconds(0))>>, Undefined),
     ProviderUsage("codex", PlanPlus, Repeat("c", MaxAccountLen \div 2),
                   <<UsageWindow(Label5h, 5, Undefined),
                     UsageWindow(LabelWeekly, 99, formatSeconds(5400))>>, Undefined),
     ProviderUsage("codex", Undefined, Undefined, <<>>, Undefined),
     ProviderUsage("codex", PlanPlus, Repeat("c", MaxAccountLen), <<>>, LongError),
     ProviderUsage("codex", Repeat("p", MaxLabelLen), AccountIdC,
                   <<UsageWindow(Repeat("L", MaxLabelLen), 20, formatSeconds(90000)),
                     UsageWindow(ShortName(MiniName), 12, formatSeconds(45)),
                     UsageWindow(LabelCodeReview, 51, Undefined)>>, Undefined),
     ProviderUsage("anthropic", Undefined, AccountIdA,
                   <<UsageWindow(Label5h, 110, Undefined)>>, Undefined)}

ResultArrays ==
    {<<>>} \cup {<<a>> : a \in RenderResults}
    \cup {<<a, b>> : a \in RenderResults, b \in RenderResults}

InitRender ==
    /\ ControllerIdle /\ FitIdle /\ GaugeIdle
    /\ rWidth \in Widths
    /\ rState \in {"loading", "error", "done"}
    /\ rResults \in (IF rState = "done" THEN ResultArrays ELSE {<<>>})
    /\ rLines = NotRendered

\* index.ts 33-35: render(width).
Render ==
    /\ rLines = NotRendered
    /\ rLines' = renderPanel(rWidth, rState, rResults)
    /\ UNCHANGED <<ctlVars, rWidth, rState, rResults, fitVars, gaugeVars>>

SpecRender == InitRender /\ [][Render]_vars

GaugeWindows ==
    {UsageWindow(l, pct, r) : l \in {Label5h, LabelSonnet}, pct \in 0..MaxPercentUsed,
                              r \in {Undefined, formatSeconds(5400)}}

InitGauge ==
    /\ ControllerIdle /\ RenderIdle /\ FitIdle
    /\ gWin \in GaugeWindows
    /\ gOut = NotRendered

\* index.ts 145: renderUsageRow(window, sharedLabelWidth, innerW - 2, theme).
RenderRow ==
    /\ gOut = NotRendered
    /\ gOut' = renderUsageRow(gWin, Len(LabelSonnet), innerW(NominalWidth) - 2)
    /\ UNCHANGED <<ctlVars, renderVars, fitVars, gWin>>

SpecGauge == InitGauge /\ [][RenderRow]_vars

Alphabet == {"a", "."}
Texts == UNION {[1..n -> Alphabet] : n \in 0..MaxTextLen}

InitFit ==
    /\ ControllerIdle /\ RenderIdle /\ GaugeIdle
    /\ fText \in Texts
    /\ fMax \in 0..(MaxTextLen + 1)
    /\ fOut = NotFitted

\* index.ts 125 and 160: fitTextEnd(text, maxLength).
Fit ==
    /\ fOut = NotFitted
    /\ fOut' = fitTextEnd(fText, fMax)
    /\ UNCHANGED <<ctlVars, renderVars, gaugeVars, fText, fMax>>

SpecFit == InitFit /\ [][Fit]_vars

-----------------------------------------------------------------------------
(* Claims about the renderer *)

\* C8: at every target width from 44 to 58 and in every state, each line
\* renderPanel returns takes exactly the target width in columns.
C8_LinesHaveTargetWidth ==
    (rLines # NotRendered /\ ~rLines.threw) =>
        \A i \in 1..Len(rLines.lines) : visibleWidth(rLines.lines[i]) = rWidth

C8_Witness ==
    /\ rLines # NotRendered /\ ~rLines.threw
    /\ rState = "done" /\ Len(rResults) = 2
    /\ Len(rResults[1].account) = MaxAccountLen /\ Len(rResults[1].windows) = 1
    /\ Len(rResults[2].windows) = 3 /\ Len(rResults[2].windows[1].label) = MaxLabelLen
    /\ Len(rLines.lines) > 10

\* C9: for every percentUsed the data model permits, 0..100 and above, the
\* row is drawn with filled = round((100 - percentUsed) / 100 * 8) cells and
\* 8 - filled unfilled cells, both within 0..8.
C9_GaugeWithinEightCells ==
    gOut # NotRendered =>
        /\ ~gOut.threw
        /\ gOut.filled \in 0..gaugeWidth
        /\ gOut.empty \in 0..gaugeWidth
        /\ gOut.filled + gOut.empty = gaugeWidth
        /\ 100 * gOut.filled - 50 <= gaugeWidth * (100 - gWin.percentUsed)
        /\ gaugeWidth * (100 - gWin.percentUsed) < 100 * gOut.filled + 50

EndsWithEllipsis(text) ==
    Len(text) >= 3 /\ SubSeq(text, Len(text) - 2, Len(text)) = <<".", ".", ".">>

\* C10 as stated: text is returned unchanged when it fits; otherwise the
\* result ends in "..." exactly when more than 3 characters are cut, and is
\* the first maxLength characters when 3 or fewer are cut.
C10_EllipsisWhenCutExceedsThree ==
    fOut # NotFitted =>
        /\ Len(fText) <= fMax => fOut = fText
        /\ Len(fText) > fMax =>
             /\ EndsWithEllipsis(fOut) <=> (Len(fText) - fMax > 3)
             /\ Len(fText) - fMax <= 3 => fOut = SubSeq(fText, 1, fMax)

\* C10 as amended: text is returned unchanged when it fits; otherwise the
\* result has exactly maxLength characters: the first maxLength - 3 of text
\* followed by "..." when maxLength > 3, the first maxLength of text when
\* maxLength <= 3.
C10_EllipsisWhenRoomForIt ==
    fOut # NotFitted =>
        /\ Len(fText) <= fMax => fOut = fText
        /\ Len(fText) > fMax =>
             /\ Len(fOut) = fMax
             /\ fMax > 3 => /\ EndsWithEllipsis(fOut)
                            /\ \A i \in 1..(fMax - 3) : fOut[i] = fText[i]
             /\ fMax <= 3 => \A i \in 1..fMax : fOut[i] = fText[i]

C10_Witness ==
    /\ fOut # NotFitted
    /\ Len(fText) = 6 /\ fMax = 4
    /\ fText = <<"a", "a", "a", "a", "a", "a">>
    /\ fOut = <<"a", ".", ".", ".">>

====
